---- MODULE Spec2Model ----
(***************************************************************************)
(* Navigator (navigate.py): the heading controller of a sailing robot.     *)
(*                                                                         *)
(* Angles are whole degrees.  The gains k_p and k_i and every rudder       *)
(* angle are kept in tenths (k_p = 6 is the source's 0.6), so that         *)
(* rudder = -(k_p * error + k_i * integrator) is exact integer arithmetic. *)
(* Time is whole seconds of time.time().                                   *)
(***************************************************************************)
EXTENDS Integers, Sequences, FiniteSets, TLC

VARIABLES
    enable_tacking,                   \* constructor arguments
    enable_cross_track_minimization,
    enable_emergency_maneuver,
    k_p, k_i,                         \* gains, in tenths
    target, prev_target,
    integrator,
    last_time_rudder_not_maxed,
    tacking_left, tacking_right,      \* "None" | "True" | "False"
    cross_track_error,
    now,                              \* time.time()
    pc,                               \* "run": in the loop of run; "raised": run left by an exception;
                                      \* "override": inside a direct call of override_rudder
    ov,                               \* locals of override_rudder
    obs,                              \* what the last tick read, computed and sent
    call                              \* a direct call of mirror_angle or update_sail

vars == <<enable_tacking, enable_cross_track_minimization, enable_emergency_maneuver,
          k_p, k_i, target, prev_target, integrator, last_time_rudder_not_maxed,
          tacking_left, tacking_right, cross_track_error, now, pc, ov, obs, call>>

config == <<enable_tacking, enable_cross_track_minimization, enable_emergency_maneuver,
            k_p, k_i>>

nav == <<target, prev_target, integrator, last_time_rudder_not_maxed,
         tacking_left, tacking_right, cross_track_error>>

-----------------------------------------------------------------------------
(* Bounds of the model *)

\* time.time() when the Navigator is constructed (wall-clock time, far from 0)
Epoch == 100
\* no tick starts after Epoch + Horizon seconds
Horizon == 29

-----------------------------------------------------------------------------
(* Constants of Navigator.__init__, override_rudder and update_sail *)

hardover_rudder_timeout == 20
hardover_rudder_threshold == 40
integrator_max == 200
cone_angle == 15
tacking_angle == 45
override_timeout == 10
override_turn == 170
override_angle == 45
rudder_limit == 180
sail_angle_close_hauled == 0
sail_angle_close_reach == 10
sail_angle_beam_reach == 20
sail_angle_broad_reach == 45
sail_angle_running == 90

Tenths(x) == x * 10

-----------------------------------------------------------------------------
(* boatdclient.Bearing: an angle kept in [0, 360) *)

Bearing(degrees) == degrees % 360

BearingAdd(a, b) == Bearing(a + b)

BearingSub(a, b) == Bearing(a - b)

\* Bearing.delta: the signed shortest rotation from a to b
delta(a, b) ==
    LET difference == b - a
    IN  IF difference > 180 THEN difference - 360
        ELSE IF difference < -180 THEN difference + 360
        ELSE difference

Abs(x) == IF x < 0 THEN -x ELSE x

\* the angle between two bearings measured around the circle
Apart(a, b) == Abs(delta(a, b))

-----------------------------------------------------------------------------
(* mirror_angle *)

mirror_angle_mod_360(angle) ==
    IF angle > 180 THEN 180 - (angle % 360) ELSE angle

mirror_angle(angle) ==
    IF angle > 180 THEN 180 - (angle % 180) ELSE angle

-----------------------------------------------------------------------------
(* update_sail: the table, on relative_wind_direction *)

sail_table(relative_wind_direction) ==
    IF relative_wind_direction < 180
    THEN IF relative_wind_direction < 45 THEN sail_angle_close_hauled
         ELSE IF relative_wind_direction < 68 THEN sail_angle_close_reach
         ELSE IF relative_wind_direction < 90 THEN sail_angle_beam_reach
         ELSE IF relative_wind_direction < 113 THEN sail_angle_broad_reach
         ELSE sail_angle_running
    ELSE IF relative_wind_direction >= 315 THEN sail_angle_close_hauled
         ELSE IF relative_wind_direction >= 292 THEN sail_angle_close_reach
         ELSE IF relative_wind_direction >= 269 THEN sail_angle_beam_reach
         ELSE IF relative_wind_direction >= 246 THEN sail_angle_broad_reach
         ELSE sail_angle_running

\* the sail angle update_sail sends for a reading of boat.wind.relative_direction
update_sail(relative_direction) == sail_table(BearingAdd(relative_direction, 180))

-----------------------------------------------------------------------------
(* Targets: what check_new_target returns and what target, prev_target hold *)

None == [kind |-> "None", v |-> 0]

BearingTarget(degrees) == [kind |-> "Bearing", v |-> degrees]

PointTarget(p) == [kind |-> "Point", v |-> p]

\* Values the boat and the behaviour supply to a tick
Bearings == {5, 95}
Points == {1}
Targets == {BearingTarget(b) : b \in Bearings} \cup {PointTarget(p) : p \in Points}
Headings == {90, 270}
WindDirections == {0, 90}
RelativeDirections == {270}
BearingsTo == {5, 60, 95, 200}
CrossTrackDistances == {-400, 400}
TickSeconds == {8, 13}
\* a call on the boat that fails in the tick: none, the read of boat.heading
\* (line 81) or boat.set_rudder (line 164)
Faults == {"none", "sensor", "actuator"}
\* <<enable_tacking, enable_cross_track_minimization, enable_emergency_maneuver, k_p, k_i>>
Configurations ==
    {<<TRUE, TRUE, TRUE, 6, 0>>, <<FALSE, TRUE, TRUE, 6, 0>>, <<TRUE, FALSE, TRUE, 6, 0>>,
     <<TRUE, TRUE, FALSE, 6, 0>>, <<TRUE, TRUE, TRUE, 6, 5>>, <<TRUE, TRUE, FALSE, 6, 5>>}

-----------------------------------------------------------------------------
(* set_target, and the poll of check_new_target in run *)

set_target_keeps_integrator(value) == [target |-> value, integrator |-> integrator]

set_target(value) == [target |-> value, integrator |-> 0]

poll_prev_after_set(value) ==
    IF value # None
    THEN LET s == set_target(value)
         IN  [prev_target |-> s.target, target |-> s.target, integrator |-> s.integrator]
    ELSE [prev_target |-> prev_target, target |-> target, integrator |-> integrator]

\* run, lines 211-214: value is what check_new_target returned
poll(value) ==
    IF value # None
    THEN LET s == set_target(value)
         IN  [prev_target |-> target, target |-> s.target, integrator |-> s.integrator]
    ELSE [prev_target |-> prev_target, target |-> target, integrator |-> integrator]

-----------------------------------------------------------------------------
(* update: the tacking logic *)

in_tacking_zone_upper_only(target_heading, wind_direction) ==
    target_heading < BearingAdd(wind_direction, tacking_angle)

\* lines 95-96: the test that guards the tacking branch
in_tacking_zone(target_heading, wind_direction) ==
    /\ target_heading < BearingAdd(wind_direction, tacking_angle)
    /\ target_heading > BearingSub(wind_direction, tacking_angle)

initial_tack_one_side(bearing_to_wind, left, right) ==
    IF right = "None" \/ left = "None"
    THEN IF bearing_to_wind <= 180
         THEN [right |-> "True", left |-> "True"]
         ELSE [right |-> "False", left |-> "True"]
    ELSE [right |-> right, left |-> left]

\* lines 102-108: the initial tack, chosen when no side is committed
initial_tack(bearing_to_wind, left, right) ==
    IF right = "None" \/ left = "None"
    THEN IF bearing_to_wind <= 180
         THEN [right |-> "True", left |-> "False"]
         ELSE [right |-> "False", left |-> "True"]
    ELSE [right |-> right, left |-> left]

\* the branch with the edge of the left tack copied from the right tack's
tacking_one_edge(target_heading, wind_direction, bearing, left, right) ==
    LET bearing_to_wind == BearingSub(bearing, wind_direction)
        side == initial_tack(bearing_to_wind, left, right)
        modulus_to_wind == mirror_angle(bearing_to_wind)
        edge == BearingAdd(wind_direction, tacking_angle)
    IN  IF modulus_to_wind >= cone_angle
        THEN IF bearing_to_wind <= 180
             THEN [right |-> "True", left |-> "False", target_heading |-> edge,
                   bearing_to_wind |-> bearing_to_wind]
             ELSE [right |-> "False", left |-> "True", target_heading |-> edge,
                   bearing_to_wind |-> bearing_to_wind]
        ELSE [right |-> side.right, left |-> side.left,
              target_heading |-> IF side.right = "True" \/ side.left = "True"
                                 THEN edge ELSE target_heading,
              bearing_to_wind |-> bearing_to_wind]

\* the branch choosing the side anew on every tick, inside the cone too
tacking_always_rederives(target_heading, wind_direction, bearing, left, right) ==
    LET bearing_to_wind == BearingSub(bearing, wind_direction)
    IN  IF bearing_to_wind <= 180
        THEN [right |-> "True", left |-> "False",
              target_heading |-> BearingAdd(wind_direction, tacking_angle),
              bearing_to_wind |-> bearing_to_wind]
        ELSE [right |-> "False", left |-> "True",
              target_heading |-> BearingSub(wind_direction, tacking_angle),
              bearing_to_wind |-> bearing_to_wind]

\* lines 98-133: the tacking branch; gives the sides and the target heading
tacking(target_heading, wind_direction, bearing, left, right) ==
    LET bearing_to_wind == BearingSub(bearing, wind_direction)
        side == initial_tack(bearing_to_wind, left, right)
        modulus_to_wind == mirror_angle(bearing_to_wind)
    IN  IF modulus_to_wind >= cone_angle
        THEN IF bearing_to_wind <= 180
             THEN [right |-> "True", left |-> "False",
                   target_heading |-> BearingAdd(wind_direction, tacking_angle),
                   bearing_to_wind |-> bearing_to_wind]
             ELSE [right |-> "False", left |-> "True",
                   target_heading |-> BearingSub(wind_direction, tacking_angle),
                   bearing_to_wind |-> bearing_to_wind]
        ELSE LET h1 == IF side.left = "True"
                       THEN BearingSub(wind_direction, tacking_angle)
                       ELSE target_heading
                 h2 == IF side.right = "True"
                       THEN BearingAdd(wind_direction, tacking_angle)
                       ELSE h1
             IN  [right |-> side.right, left |-> side.left,
                  target_heading |-> h2, bearing_to_wind |-> bearing_to_wind]

unconstrained_keeps_side(target_heading) ==
    [right |-> tacking_right, left |-> tacking_left,
     target_heading |-> target_heading, bearing_to_wind |-> 0]

\* lines 134-136: the else branch clears the committed side
unconstrained(target_heading) ==
    [right |-> "None", left |-> "None",
     target_heading |-> target_heading, bearing_to_wind |-> 0]

-----------------------------------------------------------------------------
(* update: the PID step *)

integrate_no_lower_clamp(i, error) ==
    LET sum == i + error
    IN  IF sum > integrator_max THEN integrator_max ELSE sum

\* lines 141-145
integrate(i, error) ==
    LET sum == i + error
    IN  IF sum > integrator_max THEN integrator_max
        ELSE IF sum < -integrator_max THEN -integrator_max
        ELSE sum

rudder_command_no_lower_clamp(error, i) ==
    LET rudder_angle == -(k_p * error + k_i * i)
    IN  IF rudder_angle > Tenths(rudder_limit) THEN Tenths(rudder_limit)
        ELSE rudder_angle

rudder_command_not_negated(error, i) ==
    LET rudder_angle == k_p * error + k_i * i
    IN  IF rudder_angle > Tenths(rudder_limit) THEN Tenths(rudder_limit)
        ELSE IF rudder_angle < -Tenths(rudder_limit) THEN -Tenths(rudder_limit)
        ELSE rudder_angle

\* lines 147-152, in tenths of a degree
rudder_command(error, i) ==
    LET rudder_angle == -(k_p * error + k_i * i)
    IN  IF rudder_angle > Tenths(rudder_limit) THEN Tenths(rudder_limit)
        ELSE IF rudder_angle < -Tenths(rudder_limit) THEN -Tenths(rudder_limit)
        ELSE rudder_angle

\* line 157
not_maxed(rudder_angle) == Abs(rudder_angle) < Tenths(hardover_rudder_threshold)

\* line 159
hardover_timed_out(t, last) == t - last > hardover_rudder_timeout

-----------------------------------------------------------------------------
(* update, lines 76-165, on the state that the poll left *)

NoTick ==
    [updated |-> FALSE, new_target |-> FALSE, polled |-> None, integrator_before |-> 0,
     left_before |-> "None", right_before |-> "None",
     exc |-> "none", constrained |-> FALSE,
     wind |-> 0, desired |-> 0, bearing_to_wind |-> 0, wanted |-> 0,
     pid |-> FALSE, error |-> 0, failed_ticks |-> 0,
     rudder |-> 0, fired |-> FALSE, rudder_sent |-> <<>>, sail_sent |-> <<>>]

update(p, fault, current_heading, wind_direction, relative_direction, bearing, distance, t) ==
    LET failed == [cross_track_error |-> cross_track_error, integrator |-> p.integrator,
                   left |-> tacking_left, right |-> tacking_right,
                   last |-> last_time_rudder_not_maxed,
                   obs |-> [NoTick EXCEPT !.updated = TRUE, !.exc = "IOError",
                                          !.left_before = tacking_left,
                                          !.right_before = tacking_right,
                                          !.failed_ticks = obs.failed_ticks + 1]]
        target_heading == IF p.target.kind = "Point" THEN bearing ELSE p.target.v
        cte == IF enable_cross_track_minimization
               THEN IF p.prev_target.kind = "Point" /\ p.target.kind = "Point"
                    THEN distance ELSE 0
               ELSE cross_track_error
        base == [cross_track_error |-> cte, integrator |-> p.integrator,
                 left |-> tacking_left, right |-> tacking_right,
                 last |-> last_time_rudder_not_maxed,
                 obs |-> [NoTick EXCEPT !.updated = TRUE, !.wind = wind_direction,
                                        !.left_before = tacking_left,
                                        !.right_before = tacking_right]]
    IN  IF fault = "sensor"
        THEN \* line 81: the read of boat.heading raises; nothing catches it
             failed
        ELSE
        IF p.target = None
        THEN \* line 95: a comparison of None with a Bearing
             [base EXCEPT !.obs.exc = "TypeError"]
        ELSE
        LET zone == in_tacking_zone(target_heading, wind_direction) /\ enable_tacking
        IN  IF zone /\ p.target.kind = "Bearing"
            THEN \* line 98: bearing_to of a target that is no Point
                 [base EXCEPT !.obs.exc = "AttributeError", !.obs.constrained = TRUE,
                              !.obs.desired = target_heading]
            ELSE
            LET tk == IF zone
                      THEN tacking(target_heading, wind_direction, bearing,
                                   tacking_left, tacking_right)
                      ELSE unconstrained(target_heading)
                error == delta(current_heading, tk.target_heading) + cte
                i == integrate(p.integrator, error)
                rudder_angle == rudder_command(error, i)
                maxed == enable_emergency_maneuver /\ ~not_maxed(rudder_angle)
                fired == maxed /\ hardover_timed_out(t, last_time_rudder_not_maxed)
                done == [base EXCEPT !.integrator = i, !.left = tk.left, !.right = tk.right,
                                     !.last = IF enable_emergency_maneuver /\ ~maxed
                                              THEN t ELSE @,
                                     !.obs.constrained = zone,
                                     !.obs.desired = target_heading,
                                     !.obs.bearing_to_wind = tk.bearing_to_wind,
                                     !.obs.wanted = tk.target_heading,
                                     !.obs.pid = TRUE, !.obs.error = error,
                                     !.obs.rudder = rudder_angle, !.obs.fired = fired]
            IN  IF fired
                THEN \* line 160: override_rudder is no name of the module
                     [done EXCEPT !.obs.exc = "NameError"]
                ELSE
                IF fault = "actuator"
                THEN \* line 164: boat.set_rudder raises; nothing catches it
                     [done EXCEPT !.obs.exc = "IOError",
                                  !.obs.failed_ticks = obs.failed_ticks + 1]
                ELSE [done EXCEPT !.obs.rudder_sent = <<rudder_angle>>,
                                  !.obs.sail_sent = <<update_sail(relative_direction)>>]

-----------------------------------------------------------------------------
(* Navigator.__init__ *)

NoCall == [fn |-> "none", arg |-> 0, table |-> 0, result |-> 0]

\* heading: boat.heading as the loop condition last read it
NoOverride == [timeout |-> 0, initial_heading |-> 0, heading |-> 0, rudder_sent |-> <<>>]

Constructed ==
    /\ \E c \in Configurations :
          /\ enable_tacking = c[1]
          /\ enable_cross_track_minimization = c[2]
          /\ enable_emergency_maneuver = c[3]
          /\ k_p = c[4]
          /\ k_i = c[5]
    /\ target = None
    /\ prev_target = None
    /\ integrator = 0
    /\ last_time_rudder_not_maxed = 0
    /\ tacking_left = "None"
    /\ tacking_right = "None"
    /\ cross_track_error = 0
    /\ now = Epoch
    /\ ov = NoOverride
    /\ obs = NoTick

Init ==
    /\ Constructed
    /\ pc = "run"
    /\ call = NoCall

-----------------------------------------------------------------------------
(* run, lines 210-216: one iteration of the loop *)

\* boat.heading (line 81); when this read raises nothing further is read
HeadingsRead(fault) == IF fault = "sensor" THEN {0} ELSE Headings

\* boat.wind.direction (line 95)
WindDirectionsRead(fault) == IF fault = "sensor" THEN {0} ELSE WindDirections

\* boat.position.bearing_to(target) is read for a Point only (lines 83, 98)
BearingsRead(p, fault) ==
    IF p.target.kind = "Point" /\ fault # "sensor" THEN BearingsTo ELSE {0}

\* boat.position.cross_track_distance is read between two Points only (line 90)
DistancesRead(p, fault) ==
    IF /\ fault # "sensor"
       /\ enable_cross_track_minimization
       /\ p.prev_target.kind = "Point"
       /\ p.target.kind = "Point"
    THEN CrossTrackDistances ELSE {0}

run ==
    /\ pc = "run"
    /\ \E value \in Targets \cup {None}, dt \in TickSeconds, fault \in Faults :
          /\ now + dt <= Epoch + Horizon
          /\ now' = now + dt
          /\ \E p \in {poll(value)} :
             \E current_heading \in HeadingsRead(fault) :
             \E wind_direction \in WindDirectionsRead(fault),
                relative_direction \in RelativeDirections,
                bearing \in BearingsRead(p, fault), distance \in DistancesRead(p, fault) :
             \E u \in {update(p, fault, current_heading, wind_direction, relative_direction,
                               bearing, distance, now')} :
                 /\ target' = p.target
                 /\ prev_target' = p.prev_target
                 /\ integrator' = u.integrator
                 /\ cross_track_error' = u.cross_track_error
                 /\ tacking_left' = u.left
                 /\ tacking_right' = u.right
                 /\ last_time_rudder_not_maxed' = u.last
                 /\ obs' = [u.obs EXCEPT !.new_target = (value # None),
                                         !.polled = value,
                                         !.integrator_before = integrator]
                 /\ pc' = IF u.obs.exc = "none" THEN "run" ELSE "raised"
    /\ UNCHANGED <<config, ov, call>>

Next == run

Spec == Init /\ [][Next]_vars

-----------------------------------------------------------------------------
(* override_rudder, lines 61-69, called on the Navigator between two ticks
   (update's own call of it, line 160, raises NameError) *)

RudderAngles == {-30, 0, 30}
SleepSeconds == {5}

\* line 65, in tenths of a degree
override_angle_for(boat_rudder_angle) ==
    IF boat_rudder_angle > 0 THEN -Tenths(override_angle) ELSE Tenths(override_angle)

\* lines 67-68: the condition of the while loop
override_waiting(t, timeout, initial_heading, heading) ==
    t < timeout \/ Abs(delta(initial_heading, heading)) < override_turn

\* lines 62-66
override_rudder_call ==
    /\ pc = "run"
    /\ \E initial_heading \in Headings, boat_rudder_angle \in RudderAngles :
          ov' = [timeout |-> now + override_timeout,
                 initial_heading |-> initial_heading,
                 heading |-> initial_heading,
                 rudder_sent |-> <<override_angle_for(boat_rudder_angle)>>]
    /\ pc' = "override"
    /\ UNCHANGED <<config, nav, now, obs, call>>

\* lines 67-69: the loop goes round once more
override_rudder_sleep ==
    /\ pc = "override"
    /\ \E heading \in Headings, s \in SleepSeconds :
          /\ override_waiting(now, ov.timeout, ov.initial_heading, heading)
          /\ now + s <= Epoch + Horizon
          /\ now' = now + s
          /\ ov' = [ov EXCEPT !.heading = heading]
    /\ UNCHANGED <<config, nav, pc, obs, call>>

\* lines 67-68: the loop ends and override_rudder returns
override_rudder_return ==
    /\ pc = "override"
    /\ \E heading \in Headings :
          ~override_waiting(now, ov.timeout, ov.initial_heading, heading)
    /\ pc' = "run"
    /\ ov' = NoOverride
    /\ UNCHANGED <<config, nav, now, obs, call>>

override_rudder == override_rudder_call \/ override_rudder_sleep \/ override_rudder_return

NextCalls == run \/ override_rudder

SpecCalls == Init /\ [][NextCalls]_vars

-----------------------------------------------------------------------------
(* mirror_angle and update_sail called on every angle of the circle *)

InitPure ==
    /\ Constructed
    /\ pc = "call"
    /\ \E angle \in 0 .. 359 : call = [NoCall EXCEPT !.arg = angle]

\* mirror_angle(call.arg)
call_mirror_angle ==
    /\ pc = "call"
    /\ call.fn = "none"
    /\ call' = [call EXCEPT !.fn = "mirror_angle", !.result = mirror_angle(call.arg)]
    /\ UNCHANGED <<config, nav, now, pc, ov, obs>>

\* update_sail with boat.wind.relative_direction = call.arg; table is the
\* relative_wind_direction of line 173 and result the angle given to set_sail
call_update_sail ==
    /\ pc = "call"
    /\ call.fn = "none"
    /\ call' = [call EXCEPT !.fn = "update_sail",
                            !.table = BearingAdd(call.arg, 180),
                            !.result = update_sail(call.arg)]
    /\ UNCHANGED <<config, nav, now, pc, ov, obs>>

NextPure == call_mirror_angle \/ call_update_sail

SpecPure == InitPure /\ [][NextPure]_vars



-----------------------------------------------------------------------------
(* Properties *)

\* C1: once update has run, the integrator lies in
\* [-integrator_max, integrator_max], whatever the errors were.
C1_IntegratorBounded ==
    obs.updated => /\ -integrator_max <= integrator
                   /\ integrator <= integrator_max

\* a tick whose error alone exceeds integrator_max, clamped
C1_Witness ==
    /\ obs.pid
    /\ obs.integrator_before + obs.error > integrator_max
    /\ integrator = integrator_max

\* C2: every angle given to boat.set_rudder, by update or by override_rudder,
\* lies in [-180, 180] (tenths: [-1800, 1800]).
C2_RudderInRange ==
    /\ \A k \in 1 .. Len(obs.rudder_sent) :
          /\ -Tenths(180) <= obs.rudder_sent[k]
          /\ obs.rudder_sent[k] <= Tenths(180)
    /\ \A k \in 1 .. Len(ov.rudder_sent) :
          /\ -Tenths(180) <= ov.rudder_sent[k]
          /\ ov.rudder_sent[k] <= Tenths(180)

\* a tick whose unclamped rudder angle is beyond 180 degrees, sent as 180
C2_Witness ==
    /\ obs.rudder_sent = <<Tenths(180)>>
    /\ -(k_p * obs.error + k_i * integrator) > Tenths(180)

\* C3: on a tick whose poll returned a target, the integrator after update is
\* the clamp of that tick's error alone (and 0 if update raised before the
\* PID step), whatever the integrator was before.
C3_ResetOnNewTarget ==
    obs.new_target =>
        IF obs.pid
        THEN integrator = IF obs.error > integrator_max THEN integrator_max
                          ELSE IF obs.error < -integrator_max THEN -integrator_max
                          ELSE obs.error
        ELSE integrator = 0

\* a new target polled while the integrator held an accumulated value
C3_Witness ==
    /\ obs.new_target
    /\ obs.pid
    /\ obs.integrator_before # 0
    /\ obs.error # 0
    /\ integrator = obs.error

\* C4: with tacking enabled, on a tick whose desired heading is within
\* cone_angle of the wind direction around the circle, update has committed a
\* side and steers for wind.direction + tacking_angle or - tacking_angle.
C4_NeverSteersIntoCone ==
    (/\ enable_tacking
     /\ obs.pid
     /\ obs.exc = "none"
     /\ Apart(obs.wind, obs.desired) < cone_angle)
    => /\ obs.wanted \in {BearingAdd(obs.wind, tacking_angle),
                          BearingSub(obs.wind, tacking_angle)}
       /\ tacking_left # "None"
       /\ tacking_right # "None"

\* C5: tacking_left and tacking_right are both None, or one is True and the
\* other False; they are never both True.
C5_TackSidesExclusive ==
    \/ tacking_left = "None" /\ tacking_right = "None"
    \/ tacking_left = "True" /\ tacking_right = "False"
    \/ tacking_left = "False" /\ tacking_right = "True"

\* a side committed on first entry and held inside the cone
C5_Witness ==
    /\ obs.constrained
    /\ obs.pid
    /\ Apart(obs.wind, obs.desired) < cone_angle
    /\ tacking_right = "True"
    /\ tacking_left = "False"

\* C6: a rudder kept at or beyond hardover_rudder_threshold for more than
\* hardover_rudder_timeout seconds since it was last below it triggers the
\* recovery maneuver: on that tick override_rudder's command (45 degrees to
\* one side) is given to the boat.
C6_RecoveryTriggered ==
    (/\ obs.fired
     /\ last_time_rudder_not_maxed >= Epoch)
    => /\ obs.exc = "none"
       /\ Len(obs.rudder_sent) >= 1
       /\ obs.rudder_sent[1] \in {Tenths(override_angle), -Tenths(override_angle)}

\* C7: the sail table is symmetric about 180: the angle sent for table input
\* r is the angle of the table for 360 - r.
C7_SailSymmetric ==
    call.fn = "update_sail" => call.result = sail_table(Bearing(360 - call.table))

\* C8 as claimed: mirror_angle(x) is in [0, 180] for x in [0, 360), and
\* mirror_angle(0) = 0, mirror_angle(180) = 0, mirror_angle(270) = 90.
C8_MirrorAsClaimed ==
    call.fn = "mirror_angle" =>
        /\ 0 <= call.result /\ call.result <= 180
        /\ call.arg = 0 => call.result = 0
        /\ call.arg = 180 => call.result = 0
        /\ call.arg = 270 => call.result = 90

\* C8: mirror_angle(x) is in [0, 180] for x in [0, 360), and
\* mirror_angle(0) = 0, mirror_angle(180) = 180, mirror_angle(270) = 90.
C8_MirrorRange ==
    call.fn = "mirror_angle" =>
        /\ 0 <= call.result /\ call.result <= 180
        /\ call.arg = 0 => call.result = 0
        /\ call.arg = 180 => call.result = 180
        /\ call.arg = 270 => call.result = 90

\* mirror_angle called on 270, an angle it reflects
C8_Witness ==
    /\ call.fn = "mirror_angle"
    /\ call.arg = 270
    /\ call.result = 90

\* C9 as claimed: for every gain setting with k_p > 0 and k_i >= 0 the rudder
\* command has the sign opposite to the error.
C9_SignAsClaimed ==
    (obs.pid /\ k_p > 0 /\ k_i >= 0) =>
        /\ obs.error > 0 => obs.rudder < 0
        /\ obs.error < 0 => obs.rudder > 0

\* C9: the rudder command has the sign opposite to the error when k_p > 0 and
\* either k_i = 0 or the integrator, after this tick's error is added, is not
\* of the sign opposite to the error.
C9_SignOpposite ==
    (/\ obs.pid
     /\ k_p > 0
     /\ k_i = 0 \/ (k_i > 0 /\ integrator * obs.error >= 0))
    => /\ obs.error > 0 => obs.rudder < 0
       /\ obs.error < 0 => obs.rudder > 0

\* k_i = 0, a positive error after the integrator was wound up the other way
C9_Witness ==
    /\ obs.pid
    /\ k_i = 0
    /\ obs.error > 0
    /\ integrator < 0
    /\ obs.rudder < 0

\* C10: the sail table gives 0 for relative_wind_direction 0, 20 for 90 and
\* 45 for 250.
C10_SailTablePoints ==
    call.fn = "update_sail" =>
        /\ call.table = 0 => call.result = 0
        /\ call.table = 90 => call.result = 20
        /\ call.table = 250 => call.result = 45

\* a tack side is committed
Committed == tacking_left # "None" \/ tacking_right # "None"

C12_SideAndEdgeAgree ==
    (obs.constrained /\ obs.pid) =>
        /\ (obs.right_before = "None" \/ obs.left_before = "None")
              => IF obs.bearing_to_wind <= 180
                 THEN tacking_right = "True" /\ tacking_left = "False"
                 ELSE tacking_right = "False" /\ tacking_left = "True"
        /\ obs.wanted = BearingAdd(obs.wind, tacking_angle) <=> tacking_right = "True"
        /\ obs.wanted = BearingSub(obs.wind, tacking_angle) <=> tacking_left = "True"

\* a first entry with the target to the left of the wind
C12_Witness ==
    /\ obs.constrained
    /\ obs.pid
    /\ obs.left_before = "None"
    /\ obs.right_before = "None"
    /\ obs.bearing_to_wind > 180
    /\ tacking_left = "True"
    /\ obs.wanted = BearingSub(obs.wind, tacking_angle)

\* C13: on a tick through the tacking branch with a side committed before and
\* mirror_angle(bearing_to_wind) < cone_angle, the sides are unchanged and the
\* heading is that side's edge; the committed side changes between two
\* constrained ticks only when mirror_angle(bearing_to_wind) >= cone_angle.
C13_SideHeldInsideCone ==
    (/\ obs.constrained
     /\ obs.pid
     /\ obs.left_before # "None"
     /\ obs.right_before # "None")
    => /\ mirror_angle(obs.bearing_to_wind) < cone_angle
            => /\ tacking_left = obs.left_before
               /\ tacking_right = obs.right_before
               /\ obs.wanted = IF obs.left_before = "True"
                               THEN BearingSub(obs.wind, tacking_angle)
                               ELSE BearingAdd(obs.wind, tacking_angle)
       /\ (tacking_left # obs.left_before \/ tacking_right # obs.right_before)
            => mirror_angle(obs.bearing_to_wind) >= cone_angle

\* the left tack held on a tick whose bearing_to_wind alone would choose right
C13_Witness ==
    /\ obs.constrained
    /\ obs.pid
    /\ obs.left_before = "True"
    /\ obs.bearing_to_wind <= 180
    /\ mirror_angle(obs.bearing_to_wind) < cone_angle
    /\ tacking_left = "True"
    /\ obs.wanted = BearingSub(obs.wind, tacking_angle)

C15_FiresOnlyAfterTimeout ==
    obs.fired =>
        /\ last_time_rudder_not_maxed >= Epoch
        /\ now - last_time_rudder_not_maxed > hardover_rudder_timeout

\* C16: override_rudder waits on only while neither the recovery timeout has
\* elapsed nor the heading has turned 170 degrees from its initial value: it
\* returns as soon as one of the two holds.
C16_EndsAtTimeoutOrTurn ==
    [][(pc = "override" /\ pc' = "override")
         => /\ now < ov.timeout
            /\ Abs(delta(ov.initial_heading, ov'.heading)) < override_turn]_vars

\* C17: a tick on which the watchdog fires leaves the recovery command
\* (45 degrees to one side) as the rudder command in effect; a tick on which
\* it does not fire sends the PID rudder command and then the sail command.
C17_RecoveryReplacesPid ==
    (obs.pid /\ obs.exc # "IOError") =>
        IF obs.fired
        THEN /\ Len(obs.rudder_sent) >= 1
             /\ obs.rudder_sent[Len(obs.rudder_sent)]
                   \in {Tenths(override_angle), -Tenths(override_angle)}
        ELSE /\ obs.rudder_sent = <<obs.rudder>>
             /\ Len(obs.sail_sent) = 1

\* C18: over a tick, a polled target makes prev_target the old target and
\* target the polled one; a poll of None leaves target and prev_target as
\* they were and the integrator is the old one with the tick's error added
\* (not reset); update changes neither target nor prev_target.
C18_PollFrame ==
    [][(pc = "run" /\ now' > now /\ pc' # "override") =>
          IF obs'.polled # None
          THEN /\ prev_target' = target
               /\ target' = obs'.polled
          ELSE /\ target' = target
               /\ prev_target' = prev_target
               /\ obs'.integrator_before = integrator
               /\ integrator' =
                     IF ~obs'.pid THEN integrator
                     ELSE IF integrator + obs'.error > integrator_max THEN integrator_max
                     ELSE IF integrator + obs'.error < -integrator_max THEN -integrator_max
                     ELSE integrator + obs'.error]_vars

\* a second, different target: prev_target is the first one
C18_Witness ==
    /\ obs.new_target
    /\ obs.pid
    /\ target = obs.polled
    /\ prev_target # None
    /\ prev_target # target

\* C19: a tick in which a read or a write on the boat fails sends nothing to
\* the actuators, and run ends with the fault only at the third consecutive
\* failed tick.
C19_FaultTolerated ==
    obs.exc = "IOError" =>
        /\ obs.rudder_sent = <<>>
        /\ obs.sail_sent = <<>>
        /\ pc = "raised" => obs.failed_ticks >= 3

====
